---- MODULE Spec2Model ----
(***************************************************************************)
(* The video ingestion handler of src/handler_upload_video.go as a state   *)
(* machine: a bounded number of upload requests, each walking the steps of  *)
(* handlerUploadVideo, interleaved over the shared video database, the     *)
(* temp directory and the object store.                                     *)
(*                                                                          *)
(* Strings whose structure the code builds or parses (paths, object keys,   *)
(* the persisted "bucket,key" reference) are sequences of tokens; a token   *)
(* is a separator character or a run of characters without separators.      *)
(***************************************************************************)
EXTENDS Integers, Sequences, FiniteSets, TLC

VARIABLES req, db, files, store, effects, ratioW, ratioH, ratioLabel, ratioPrev

vars == <<req, db, files, store, effects, ratioW, ratioH, ratioLabel, ratioPrev>>

\* ------------------------------------------------------------------ bounds
MaxRequests == 2
MaxTemp == 2
MaxRand == 2
MaxDim == 72

Reqs == 1..MaxRequests

\* ------------------------------------------------------- program constants
StatusOK == 200
StatusBadRequest == 400
StatusUnauthorized == 401
StatusNotFound == 404
StatusInternalServerError == 500

Nil == <<>>
NoResp == [status |-> 0, msg |-> ""]

Users == {"u1", "u2"}
\* "v1" is the one record of the database; "v2" names no record.
VideoIDs == {"v1", "v2"}
s3Bucket == <<"tubely-bucket">>

\* ------------------------------------------------------------ pure helpers

\* Mutant of SprintfKey: the key without its label prefix.
SprintfKeyWithoutLabel(aspectRatio, randomString, extension) ==
    randomString \o <<".">> \o extension

\* fmt.Sprintf("%s/%s.%s", aspectRatio, randomString, extension)
SprintfKey(aspectRatio, randomString, extension) ==
    aspectRatio \o <<"/">> \o randomString \o <<".">> \o extension

\* Mutant of SprintfVideoURL: the key alone, without the bucket.
SprintfVideoURLKeyOnly(bucket, fileKey) == fileKey

\* fmt.Sprintf("%s,%s", cfg.s3Bucket, fileKey)
SprintfVideoURL(bucket, fileKey) == bucket \o <<",">> \o fileKey

\* base64.RawURLEncoding.EncodeToString of the n-th value rand.Read can give:
\* one run of characters of the URL-safe alphabet, which holds none of , / .
EncodeToString(n) == <<"r" \o ToString(n) \o "-_">>

\* os.CreateTemp("", "tubely-upload.mp4"): the pattern holds no "*", so the
\* random decimal string is appended to it.
TempName(n) == <<"/tmp/", "tubely-upload.mp4", ToString(n)>>

\* filepath + ".processing"
OutputPath(filepath) == filepath \o <<".processing">>

\* Mutant of getExtension: the table knows video/mp4.
getExtensionKnowsMp4(contentType) ==
    CASE contentType = "image/jpeg" -> <<"jpg">>
      [] contentType = "image/png" -> <<"png">>
      [] contentType = "image/gif" -> <<"gif">>
      [] contentType = "image/webp" -> <<"webp">>
      [] contentType = "video/mp4" -> <<"mp4">>
      [] OTHER -> <<"bin">>

\* getExtension
getExtension(contentType) ==
    CASE contentType = "image/jpeg" -> <<"jpg">>
      [] contentType = "image/png" -> <<"png">>
      [] contentType = "image/gif" -> <<"gif">>
      [] contentType = "image/webp" -> <<"webp">>
      [] OTHER -> <<"bin">>

\* mime.ParseMediaType of the part's Content-Type header: the media type in
\* lower case without its parameters, or an error ("" stands for the error).
ContentTypes ==
    {"video/mp4", "Video/MP4", "video/mp4; codecs=avc1", "image/png",
     "video/webm", "", "video/mp4; codecs"}

ParseMediaType(contentType) ==
    CASE contentType = "video/mp4" -> [mediaType |-> "video/mp4", err |-> FALSE]
      [] contentType = "Video/MP4" -> [mediaType |-> "video/mp4", err |-> FALSE]
      [] contentType = "video/mp4; codecs=avc1" ->
            [mediaType |-> "video/mp4", err |-> FALSE]
      [] contentType = "image/png" -> [mediaType |-> "image/png", err |-> FALSE]
      [] contentType = "video/webm" -> [mediaType |-> "video/webm", err |-> FALSE]
      [] OTHER -> [mediaType |-> "", err |-> TRUE]

\* Mutant of Unsupported: the media type check is left out.
UnsupportedNeverRejects(mediaType) == FALSE

\* mediaType != "video/mp4"
Unsupported(mediaType) == mediaType # "video/mp4"

\* Mutant of NotOwner: the ownership check is left out.
NotOwnerNeverRejects(video, userID) == FALSE

\* video.UserID != userID
NotOwner(video, userID) == video.UserID # userID

\* math.Abs(float64(width)/float64(height) - num/den) < 0.001 for width,
\* height >= 0.  A zero height makes the ratio +Inf or NaN, and every
\* comparison with those is false.
Abs(x) == IF x < 0 THEN -x ELSE x

\* Mutant of NearRatio: a tolerance of 0.01.
NearRatioWideTolerance(width, height, num, den) ==
    /\ height # 0
    /\ Abs(width * den - num * height) * 100 < den * height

NearRatio(width, height, num, den) ==
    /\ height # 0
    /\ Abs(width * den - num * height) * 1000 < den * height

\* the if / else if / else of getVideoAspectRatio
ClassifyRatio(width, height) ==
    IF NearRatio(width, height, 16, 9) THEN <<"landscape">>
    ELSE IF NearRatio(width, height, 9, 16) THEN <<"portrait">>
    ELSE <<"other">>

\* What ffprobe can hand back: the run fails, the output is not JSON, the
\* JSON holds no stream, or the first stream has a width and a height.
ProbeDims == {<<1920, 1080>>, <<1080, 1920>>, <<1000, 1000>>}

ProbeOutcomes ==
    {[kind |-> "toolError", width |-> 0, height |-> 0],
     [kind |-> "malformed", width |-> 0, height |-> 0],
     [kind |-> "noStreams", width |-> 0, height |-> 0]}
    \cup {[kind |-> "streams", width |-> d[1], height |-> d[2]] : d \in ProbeDims}

\* getVideoAspectRatio on one outcome of the tool: a label, an error, or a
\* panic (cmdResult.Streams[0] on an empty slice).
getVideoAspectRatio(out) ==
    CASE out.kind = "toolError" -> [label |-> Nil, err |-> TRUE, panic |-> FALSE]
      [] out.kind = "malformed" -> [label |-> Nil, err |-> TRUE, panic |-> FALSE]
      [] out.kind = "noStreams" -> [label |-> Nil, err |-> FALSE, panic |-> TRUE]
      [] OTHER -> [label |-> ClassifyRatio(out.width, out.height),
                   err |-> FALSE, panic |-> FALSE]

\* Mutant of Split: the string is cut at its first "/" instead of its commas.
SplitAtSlash(s) ==
    IF \A i \in 1..Len(s) : s[i] # "/" THEN <<s>>
    ELSE LET i == CHOOSE k \in 1..Len(s) :
                      s[k] = "/" /\ \A j \in 1..(k - 1) : s[j] # "/"
         IN <<SubSeq(s, 1, i - 1), SubSeq(s, i + 1, Len(s))>>

\* strings.Split(s, ","): the runs of tokens between the commas.
RECURSIVE Split(_)
Split(s) ==
    IF \A i \in 1..Len(s) : s[i] # "," THEN <<s>>
    ELSE LET i == CHOOSE k \in 1..Len(s) :
                      s[k] = "," /\ \A j \in 1..(k - 1) : s[j] # ","
         IN <<SubSeq(s, 1, i - 1)>> \o Split(SubSeq(s, i + 1, Len(s)))

\* database.Client.GetVideo / UpdateVideo: the record of an id, and the
\* whole record written back.
HasVideo(d, id) == id \in DOMAIN d
GetVideo(d, id) == d[id]
UpdateVideo(d, video) ==
    [d EXCEPT ![video.ID] = [@ EXCEPT !.VideoURL = video.VideoURL,
                                      !.ThumbnailURL = video.ThumbnailURL]]

\* ------------------------------------------------------------------- state

NoProbe == [kind |-> "none", width |-> 0, height |-> 0]
NoVideo == [ID |-> "", UserID |-> "", VideoURL |-> Nil, ThumbnailURL |-> Nil]

NewRequest ==
    [pc |-> "start", videoID |-> "", userID |-> "", video |-> NoVideo,
     body |-> "", mediaType |-> "", tempFile |-> Nil, fastStart |-> Nil,
     fastDefer |-> FALSE, probe |-> NoProbe, aspectRatio |-> Nil,
     fileKey |-> Nil, resp |-> NoResp, returnedURL |-> Nil, gone |-> ""]

Init ==
    /\ req = [r \in Reqs |-> NewRequest]
    /\ db = [v \in {"v1"} |->
               [ID |-> v, UserID |-> "u1", VideoURL |-> Nil, ThumbnailURL |-> Nil]]
    /\ files = {}
    /\ store = {}
    /\ effects = {}
    /\ ratioW = 0
    /\ ratioH = 0
    /\ ratioLabel = Nil
    /\ ratioPrev = Nil

ratioVars == <<ratioW, ratioH, ratioLabel, ratioPrev>>

At(r, label) == req[r].pc = label

Goto(r, label, changes) ==
    req' = [req EXCEPT ![r] = [k \in DOMAIN @ |->
              IF k = "pc" THEN label
              ELSE IF k \in DOMAIN changes THEN changes[k] ELSE @[k]]]

\* The handler returns (or panics): its locals are gone.
Return(r, label, changes) ==
    req' = [req EXCEPT ![r] = [k \in DOMAIN @ |->
              IF k = "pc" THEN label
              ELSE IF k \in {"tempFile", "fastStart"} THEN Nil
              ELSE IF k = "fastDefer" THEN FALSE
              ELSE IF k \in DOMAIN changes THEN changes[k] ELSE @[k]]]

Effect(r, name) == effects' = effects \cup {<<r, name>>}

\* The deferred calls of a request, run when the handler returns or panics:
\* os.Remove(fastStartTempFilepath) if line 105 was reached, and
\* os.Remove(tempFile.Name()) if line 81 was reached.
DeferredRemoves(q) ==
    (IF q.fastDefer THEN {q.fastStart} ELSE {})
    \cup (IF q.tempFile # Nil THEN {q.tempFile} ELSE {})

\* respondWithError(w, code, msg, err); return
RespondWithError(r, code, msg) ==
    /\ Return(r, "done", [resp |-> [status |-> code, msg |-> msg]])
    /\ files' = files \ DeferredRemoves(req[r])

\* ------------------------------------------- handlerUploadVideo, by step

\* lines 26-31: uuid.Parse(r.PathValue("videoID"))
ParseVideoID(r) ==
    /\ At(r, "start")
    /\ \/ RespondWithError(r, StatusBadRequest, "Invalid ID")
       \/ \E id \in VideoIDs :
            /\ Goto(r, "token", [videoID |-> id])
            /\ UNCHANGED files
    /\ UNCHANGED <<db, store, effects, ratioVars>>

\* lines 33-37: auth.GetBearerToken(r.Header)
GetBearerToken(r) ==
    /\ At(r, "token")
    /\ \/ RespondWithError(r, StatusUnauthorized, "Couldn't find JWT")
       \/ Goto(r, "jwt", <<>>) /\ UNCHANGED files
    /\ UNCHANGED <<db, store, effects, ratioVars>>

\* lines 39-43: auth.ValidateJWT(token, cfg.jwtSecret)
ValidateJWT(r) ==
    /\ At(r, "jwt")
    /\ \/ RespondWithError(r, StatusUnauthorized, "Couldn't validate JWT")
       \/ \E u \in Users :
            /\ Goto(r, "load", [userID |-> u])
            /\ UNCHANGED files
    /\ UNCHANGED <<db, store, effects, ratioVars>>

\* lines 45-49: cfg.db.GetVideo(videoID)
LoadVideo(r) ==
    /\ At(r, "load")
    /\ \/ RespondWithError(r, StatusNotFound, "Couldn't get video")
       \/ /\ HasVideo(db, req[r].videoID)
          /\ Goto(r, "owner", [video |-> GetVideo(db, req[r].videoID)])
          /\ UNCHANGED files
    /\ Effect(r, "GetVideo")
    /\ UNCHANGED <<db, store, ratioVars>>

\* lines 50-53: the ownership check
CheckOwner(r) ==
    /\ At(r, "owner")
    /\ IF NotOwner(req[r].video, req[r].userID)
       THEN RespondWithError(r, StatusUnauthorized,
                             "User not authorized to edit video")
       ELSE Goto(r, "form", <<>>) /\ UNCHANGED files
    /\ UNCHANGED <<db, store, effects, ratioVars>>

\* lines 57-63: http.MaxBytesReader(w, r.Body, 1 << 30); r.FormFile("video").
\* The body is well formed, not a multipart form, without a "video" part, or
\* longer than the limit (the reader then fails and FormFile returns its
\* error).  A caller that went away before the whole body had arrived leaves
\* a body whose read fails, and FormFile returns that error.
BodyKinds == {"ok", "malformed", "noVideoPart", "tooLarge"}

FormFile(r) ==
    /\ At(r, "form")
    /\ \E b \in (IF req[r].gone = "" THEN BodyKinds ELSE {"disconnected"}) :
         IF b = "ok"
         THEN Goto(r, "mediaType", [body |-> b]) /\ UNCHANGED files
         ELSE /\ Return(r, "done",
                      [body |-> b,
                       resp |-> [status |-> StatusBadRequest,
                                 msg |-> "Couldn't parse multipart form"]])
              /\ files' = files \ DeferredRemoves(req[r])
    /\ UNCHANGED <<db, store, effects, ratioVars>>

\* lines 65-74: the declared media type of the part
CheckMediaType(r) ==
    /\ At(r, "mediaType")
    /\ \E ct \in ContentTypes :
         LET p == ParseMediaType(ct) IN
         IF p.err
         THEN RespondWithError(r, StatusBadRequest, "Couldn't parse media type")
         ELSE IF Unsupported(p.mediaType)
         THEN /\ Return(r, "done",
                      [mediaType |-> p.mediaType,
                       resp |-> [status |-> StatusBadRequest,
                                 msg |-> "Unsupported file type"]])
              /\ files' = files \ DeferredRemoves(req[r])
         ELSE /\ Goto(r, "createTemp", [mediaType |-> p.mediaType])
              /\ UNCHANGED files
    /\ UNCHANGED <<db, store, effects, ratioVars>>

\* Mutant of CreateTemp: the name is not tested against the files on disk.
CreateTempReusesName(r) ==
    /\ At(r, "createTemp")
    /\ \/ /\ RespondWithError(r, StatusInternalServerError,
                              "Couldn't create temp file")
          /\ UNCHANGED effects
       \/ \E n \in 1..MaxTemp :
            /\ Goto(r, "copy", [tempFile |-> TempName(n)])
            /\ files' = files \cup {TempName(n)}
            /\ Effect(r, "CreateTemp")
    /\ UNCHANGED <<db, store, ratioVars>>

\* lines 76-82: os.CreateTemp picks a name no file has (O_EXCL) and creates
\* it, or fails.
CreateTemp(r) ==
    /\ At(r, "createTemp")
    /\ \/ /\ RespondWithError(r, StatusInternalServerError,
                              "Couldn't create temp file")
          /\ UNCHANGED effects
       \/ \E n \in 1..MaxTemp :
            /\ TempName(n) \notin files
            /\ Goto(r, "copy", [tempFile |-> TempName(n)])
            /\ files' = files \cup {TempName(n)}
            /\ Effect(r, "CreateTemp")
    /\ UNCHANGED <<db, store, ratioVars>>

\* lines 84-88: io.Copy(tempFile, formFile)
CopyToTemp(r) ==
    /\ At(r, "copy")
    /\ \/ RespondWithError(r, StatusInternalServerError, "Couldn't copy file")
       \/ Goto(r, "seek", <<>>) /\ UNCHANGED files
    /\ UNCHANGED <<db, store, effects, ratioVars>>

\* lines 90-93: tempFile.Seek(0, io.SeekStart)
SeekStart(r) ==
    /\ At(r, "seek")
    /\ \/ RespondWithError(r, StatusInternalServerError, "Couldn't seek file")
       \/ Goto(r, "remux", <<>>) /\ UNCHANGED files
    /\ UNCHANGED <<db, store, effects, ratioVars>>

\* lines 95-99 and 197-204: ffmpeg -i filepath ... output_path, without -y:
\* it never overwrites a file that exists.  It succeeds and leaves its output,
\* or fails, having written nothing or a part of the output.
processVideoForFastStart(r) ==
    LET output_path == OutputPath(req[r].tempFile) IN
    /\ At(r, "remux")
    /\ \/ /\ output_path \notin files
          /\ Goto(r, "open", [fastStart |-> output_path])
          /\ files' = files \cup {output_path}
       \/ \E partial \in BOOLEAN :
            /\ Return(r, "done",
                    [resp |-> [status |-> StatusInternalServerError,
                               msg |-> "Couldn't process video"]])
            /\ files' = (files \cup (IF partial THEN {output_path} ELSE {}))
                           \ DeferredRemoves(req[r])
    /\ Effect(r, "ffmpeg")
    /\ UNCHANGED <<db, store, ratioVars>>

\* lines 100-106: os.Open(fastStartTempFilepath), then the deferred Remove
OpenFastStart(r) ==
    /\ At(r, "open")
    /\ \/ RespondWithError(r, StatusInternalServerError,
                           "Couldn't open fast start temp file")
       \/ Goto(r, "probe", [fastDefer |-> TRUE]) /\ UNCHANGED files
    /\ UNCHANGED <<db, store, effects, ratioVars>>

\* lines 108-112 and 166-195: getVideoAspectRatio(tempFile.Name())
CallGetVideoAspectRatio(r) ==
    /\ At(r, "probe")
    /\ \E o \in ProbeOutcomes :
         LET res == getVideoAspectRatio(o) IN
         IF res.panic
         THEN /\ Return(r, "panicked", [probe |-> o])
              /\ files' = files \ DeferredRemoves(req[r])
         ELSE IF res.err
         THEN /\ Return(r, "done",
                      [probe |-> o,
                       resp |-> [status |-> StatusInternalServerError,
                                 msg |-> "Couldn't get video aspect ratio"]])
              /\ files' = files \ DeferredRemoves(req[r])
         ELSE /\ Goto(r, "key", [probe |-> o, aspectRatio |-> res.label])
              /\ UNCHANGED files
    /\ Effect(r, "ffprobe")
    /\ UNCHANGED <<db, store, ratioVars>>

\* lines 113-117: the random identifier and the object key
MakeFileKey(r) ==
    /\ At(r, "key")
    /\ \E n \in 1..MaxRand :
         Goto(r, "put",
              [fileKey |-> SprintfKey(req[r].aspectRatio, EncodeToString(n),
                                      getExtension(req[r].mediaType))])
    /\ UNCHANGED <<db, files, store, effects, ratioVars>>

\* Mutant of PutObject: a write that reports success stores nothing.
PutObjectDropsObject(r) ==
    /\ At(r, "put")
    /\ \/ /\ RespondWithError(r, StatusInternalServerError, "Couldn't upload file")
          /\ effects' = effects \cup {<<r, "PutObject">>}
          /\ UNCHANGED store
       \/ /\ Goto(r, "update", <<>>)
          /\ UNCHANGED store
          /\ effects' = effects \cup {<<r, "PutObject">>, <<r, "stored">>}
          /\ UNCHANGED files
    /\ UNCHANGED <<db, ratioVars>>

\* Mutant of PutObject: the error of the write is not tested.
PutObjectIgnoresError(r) ==
    /\ At(r, "put")
    /\ \/ /\ Goto(r, "update", <<>>)
          /\ effects' = effects \cup {<<r, "PutObject">>}
          /\ UNCHANGED store
       \/ /\ Goto(r, "update", <<>>)
          /\ store' = store \cup {<<s3Bucket, req[r].fileKey>>}
          /\ effects' = effects \cup {<<r, "PutObject">>, <<r, "stored">>}
    /\ UNCHANGED <<db, files, ratioVars>>

\* lines 119-128: cfg.s3Client.PutObject
PutObject(r) ==
    /\ At(r, "put")
    /\ \/ /\ RespondWithError(r, StatusInternalServerError, "Couldn't upload file")
          /\ effects' = effects \cup {<<r, "PutObject">>}
          /\ UNCHANGED store
       \/ /\ Goto(r, "update", <<>>)
          /\ store' = store \cup {<<s3Bucket, req[r].fileKey>>}
          /\ effects' = effects \cup {<<r, "PutObject">>, <<r, "stored">>}
          /\ UNCHANGED files
    /\ UNCHANGED <<db, ratioVars>>

\* Mutant of PersistVideoURL: the record is written although the update
\* reports an error.
PersistVideoURLWritesOnError(r) ==
    LET video == [req[r].video EXCEPT
                    !.VideoURL = SprintfVideoURL(s3Bucket, req[r].fileKey)] IN
    /\ At(r, "update")
    /\ \/ /\ Return(r, "done",
                  [video |-> video,
                   resp |-> [status |-> StatusInternalServerError,
                             msg |-> "Couldn't update video"]])
          /\ files' = files \ DeferredRemoves(req[r])
          /\ effects' = effects \cup {<<r, "UpdateVideo">>}
          /\ db' = UpdateVideo(db, video)
       \/ /\ Goto(r, "sign", [video |-> video])
          /\ db' = UpdateVideo(db, video)
          /\ effects' = effects \cup {<<r, "UpdateVideo">>, <<r, "updated">>}
          /\ UNCHANGED files
    /\ UNCHANGED <<store, ratioVars>>

\* lines 130-137: video.VideoURL = &videoURL; cfg.db.UpdateVideo(video)
PersistVideoURL(r) ==
    LET video == [req[r].video EXCEPT
                    !.VideoURL = SprintfVideoURL(s3Bucket, req[r].fileKey)] IN
    /\ At(r, "update")
    /\ \/ /\ Return(r, "done",
                  [video |-> video,
                   resp |-> [status |-> StatusInternalServerError,
                             msg |-> "Couldn't update video"]])
          /\ files' = files \ DeferredRemoves(req[r])
          /\ effects' = effects \cup {<<r, "UpdateVideo">>}
          /\ UNCHANGED db
       \/ /\ Goto(r, "sign", [video |-> video])
          /\ db' = UpdateVideo(db, video)
          /\ effects' = effects \cup {<<r, "UpdateVideo">>, <<r, "updated">>}
          /\ UNCHANGED files
    /\ UNCHANGED <<store, ratioVars>>

\* generatePresignedURL: a URL bound to the bucket and the key
PresignedURL(bucket, key) ==
    <<"https://">> \o bucket \o <<".s3.amazonaws.com/">> \o key
        \o <<"?X-Amz-Expires=600&X-Amz-Signature=">>

\* lines 139-145 and 148-164: dbVideoToSignedVideo, then respondWithJSON
SignAndRespond(r) ==
    LET url == req[r].video.VideoURL
        params == Split(url)
    IN
    /\ At(r, "sign")
    /\ IF url = Nil
       THEN /\ Return(r, "done", [resp |-> [status |-> StatusOK, msg |-> ""]])
            /\ UNCHANGED effects
       ELSE IF Len(params) < 2
       THEN Return(r, "panicked", <<>>) /\ UNCHANGED effects
       ELSE /\ \/ Return(r, "done",
                       [resp |-> [status |-> StatusInternalServerError,
                                  msg |-> "Couldn't sign video"]])
               \/ Return(r, "done",
                       [resp |-> [status |-> StatusOK, msg |-> ""],
                        returnedURL |-> PresignedURL(params[1], params[2])])
            /\ Effect(r, "Presign")
    /\ files' = files \ DeferredRemoves(req[r])
    /\ UNCHANGED <<db, store, ratioVars>>

Step(r) ==
    \/ ParseVideoID(r)
    \/ GetBearerToken(r)
    \/ ValidateJWT(r)
    \/ LoadVideo(r)
    \/ CheckOwner(r)
    \/ FormFile(r)
    \/ CheckMediaType(r)
    \/ CreateTemp(r)
    \/ CopyToTemp(r)
    \/ SeekStart(r)
    \/ processVideoForFastStart(r)
    \/ OpenFastStart(r)
    \/ CallGetVideoAspectRatio(r)
    \/ MakeFileKey(r)
    \/ PutObject(r)
    \/ PersistVideoURL(r)
    \/ SignAndRespond(r)

Next == \E r \in Reqs : Step(r)

Spec == Init /\ [][Next]_vars

\* ------------------------------------------------ the caller goes away

\* The caller closes the connection while the handler runs lines 57-93:
\* before r.FormFile has read the whole body ("form"), or later, when the
\* body has been read into the parsed form and the handler works on its own
\* files.  The handler reads r.Body only inside r.FormFile (line 59) and uses
\* r.Context() only in PutObject (line 119); io.Copy (line 84) reads the
\* parsed part and exec.Command (lines 167, 199) takes no context.
DisconnectPoints == {"form", "mediaType", "createTemp", "copy"}

CallerDisconnects(r) ==
    /\ req[r].pc \in DisconnectPoints
    /\ req[r].gone = ""
    /\ Goto(r, req[r].pc, [gone |-> req[r].pc])
    /\ UNCHANGED <<db, files, store, effects, ratioVars>>

NextCancel == Next \/ \E r \in Reqs : CallerDisconnects(r)

SpecCancel == Init /\ [][NextCancel]_vars

\* -------------------------------------- handlerUploadThumbnail, by step

assetsRoot == <<"./assets">>
port == <<"8091">>

\* filepath.Join(cfg.assetsRoot, randomString + "." + extension)
AssetPath(randomString, extension) ==
    assetsRoot \o <<"/">> \o randomString \o <<".">> \o extension

\* fmt.Sprintf("http://localhost:%s/assets/%s.%s", cfg.port, randomString,
\* extension)
SprintfThumbnailURL(randomString, extension) ==
    <<"http://localhost:">> \o port \o <<"/assets/">> \o randomString
        \o <<".">> \o extension

\* mediaType != "image/jpeg" && mediaType != "image/png"
UnsupportedThumbnail(mediaType) ==
    mediaType # "image/jpeg" /\ mediaType # "image/png"

\* lines 18-35: uuid.Parse, auth.GetBearerToken, auth.ValidateJWT
ThumbParseRequest(r) ==
    /\ At(r, "start")
    /\ \/ RespondWithError(r, StatusBadRequest, "Invalid ID")
       \/ RespondWithError(r, StatusUnauthorized, "Couldn't find JWT")
       \/ RespondWithError(r, StatusUnauthorized, "Couldn't validate JWT")
       \/ \E id \in VideoIDs, u \in Users :
            /\ Goto(r, "thumbForm", [videoID |-> id, userID |-> u])
            /\ UNCHANGED files
    /\ UNCHANGED <<db, store, effects, ratioVars>>

\* lines 41-52: r.ParseMultipartForm(10 << 20); r.FormFile("thumbnail")
ThumbFormFile(r) ==
    /\ At(r, "thumbForm")
    /\ \/ RespondWithError(r, StatusBadRequest, "Couldn't parse multipart form")
       \/ Goto(r, "thumbLoad", [body |-> "ok"]) /\ UNCHANGED files
    /\ UNCHANGED <<db, store, effects, ratioVars>>

\* lines 54-58: cfg.db.GetVideo(videoID)
ThumbLoadVideo(r) ==
    /\ At(r, "thumbLoad")
    /\ \/ RespondWithError(r, StatusNotFound, "Couldn't get video")
       \/ /\ HasVideo(db, req[r].videoID)
          /\ Goto(r, "thumbOwner", [video |-> GetVideo(db, req[r].videoID)])
          /\ UNCHANGED files
    /\ UNCHANGED <<db, store, effects, ratioVars>>

\* lines 59-62: the ownership check
ThumbCheckOwner(r) ==
    /\ At(r, "thumbOwner")
    /\ IF NotOwner(req[r].video, req[r].userID)
       THEN RespondWithError(r, StatusUnauthorized,
                             "You can't upload a thumbnail for this video")
       ELSE Goto(r, "thumbMediaType", <<>>) /\ UNCHANGED files
    /\ UNCHANGED <<db, store, effects, ratioVars>>

\* lines 64-73: the declared media type of the part
ThumbCheckMediaType(r) ==
    /\ At(r, "thumbMediaType")
    /\ \E ct \in ContentTypes :
         LET p == ParseMediaType(ct) IN
         IF p.err
         THEN RespondWithError(r, StatusBadRequest, "Couldn't parse media type")
         ELSE IF UnsupportedThumbnail(p.mediaType)
         THEN RespondWithError(r, StatusBadRequest, "Unsupported file type")
         ELSE Goto(r, "thumbCreate", [mediaType |-> p.mediaType])
              /\ UNCHANGED files
    /\ UNCHANGED <<db, store, effects, ratioVars>>

\* lines 75-85: the random name and os.Create, which truncates a file that
\* exists.  The new reference of line 93 is built from the same name and
\* extension and put into the loaded record (line 94).
ThumbCreateFile(r) ==
    /\ At(r, "thumbCreate")
    /\ \/ RespondWithError(r, StatusInternalServerError, "Couldn't create file")
       \/ \E n \in 1..MaxRand :
            LET randomString == EncodeToString(n)
                extension == getExtension(req[r].mediaType)
            IN
            /\ Goto(r, "thumbCopy",
                    [video |-> [req[r].video EXCEPT !.ThumbnailURL =
                                  SprintfThumbnailURL(randomString, extension)]])
            /\ files' = files \cup {AssetPath(randomString, extension)}
    /\ UNCHANGED <<db, store, effects, ratioVars>>

\* lines 87-91: io.Copy(file, formFile)
ThumbCopy(r) ==
    /\ At(r, "thumbCopy")
    /\ \/ RespondWithError(r, StatusInternalServerError, "Couldn't copy file")
       \/ Goto(r, "thumbUpdate", <<>>) /\ UNCHANGED files
    /\ UNCHANGED <<db, store, effects, ratioVars>>

\* lines 96-102: cfg.db.UpdateVideo(video); respondWithJSON
ThumbPersist(r) ==
    /\ At(r, "thumbUpdate")
    /\ \/ /\ RespondWithError(r, StatusInternalServerError, "Couldn't update video")
          /\ UNCHANGED db
       \/ /\ Return(r, "done", [resp |-> [status |-> StatusOK, msg |-> ""]])
          /\ db' = UpdateVideo(db, req[r].video)
          /\ UNCHANGED files
    /\ UNCHANGED <<store, effects, ratioVars>>

ThumbStep(r) ==
    \/ ThumbParseRequest(r)
    \/ ThumbFormFile(r)
    \/ ThumbLoadVideo(r)
    \/ ThumbCheckOwner(r)
    \/ ThumbCheckMediaType(r)
    \/ ThumbCreateFile(r)
    \/ ThumbCopy(r)
    \/ ThumbPersist(r)

\* Video uploads and thumbnail uploads served side by side.
NextThumb == Next \/ \E r \in Reqs : ThumbStep(r)

SpecThumb == Init /\ [][NextThumb]_vars

\* ------------------------------------- the classification on its own

\* Widths and heights a first stream can report, within the bound, and the
\* sizes of the common 16:9 and square frames.
Dims == (0..MaxDim) \cup {1000, 1080, 1920}

InitRatio ==
    /\ req = [r \in Reqs |-> NewRequest]
    /\ db = [v \in {"v1"} |->
               [ID |-> v, UserID |-> "u1", VideoURL |-> Nil, ThumbnailURL |-> Nil]]
    /\ files = {}
    /\ store = {}
    /\ effects = {}
    /\ ratioW \in Dims
    /\ ratioH \in Dims
    /\ ratioLabel = Nil
    /\ ratioPrev = Nil

\* the classification of the pair
Classify ==
    /\ ratioLabel = Nil
    /\ ratioLabel' = ClassifyRatio(ratioW, ratioH)
    /\ UNCHANGED <<req, db, files, store, effects, ratioW, ratioH, ratioPrev>>

\* the classification of the pair with width and height exchanged
ClassifySwapped ==
    /\ ratioLabel # Nil
    /\ ratioW' = ratioH
    /\ ratioH' = ratioW
    /\ ratioPrev' = ratioLabel
    /\ ratioLabel' = ClassifyRatio(ratioH, ratioW)
    /\ UNCHANGED <<req, db, files, store, effects>>

NextRatio == Classify \/ ClassifySwapped

SpecRatio == InitRatio /\ [][NextRatio]_vars

\* ------------------------------------------------------------------ claims

Returned(r) == req[r].pc \in {"done", "panicked"}
Did(r, name) == <<r, name>> \in effects
Labels == {<<"landscape">>, <<"portrait">>, <<"other">>}

\* The steps that create a file, run a tool, write to the object store or
\* write the record.
SideEffects == {"CreateTemp", "ffmpeg", "ffprobe", "PutObject", "stored",
                "UpdateVideo", "updated", "Presign"}

\* C1: a request whose identity is not the owner of the loaded record has no
\* side effect (no temp file, no tool run, no object-store write, no record
\* update) and ends with the ownership error; every request that has a side
\* effect has loaded the record before and is its owner.
C1_NonOwnerNoSideEffect ==
    \A r \in Reqs :
      /\ (Did(r, "GetVideo") /\ req[r].video.ID # ""
            /\ req[r].video.UserID # req[r].userID)
         => /\ \A e \in SideEffects : ~Did(r, e)
            /\ req[r].tempFile = Nil
            /\ req[r].fastStart = Nil
            /\ req[r].pc \in {"owner", "done"}
            /\ req[r].pc = "done"
                 => req[r].resp.msg = "User not authorized to edit video"
      /\ (\E e \in SideEffects : Did(r, e))
         => /\ Did(r, "GetVideo")
            /\ req[r].video.ID = req[r].videoID
            /\ req[r].video.UserID = req[r].userID

\* C1 witness: a non-owner was turned away while the record exists
C1_Witness ==
    \E r \in Reqs :
      /\ req[r].pc = "done"
      /\ req[r].userID = "u2"
      /\ req[r].video.UserID = "u1"
      /\ req[r].resp.msg = "User not authorized to edit video"

\* C2 (as claimed): a run that has returned either answered 200 after its
\* record update, or answered an error without having changed the record.
C2_ErrorLeavesRecordUnchanged ==
    \A r \in Reqs :
      req[r].pc = "done" =>
        \/ req[r].resp.status = StatusOK /\ Did(r, "updated")
        \/ req[r].resp.status # StatusOK /\ ~Did(r, "updated")

\* C3 (as claimed): when the handler returns, on any path, neither its staged
\* upload nor its remuxed artifact (staged path + ".processing") is on disk.
C3_NoTempFileAfterReturn ==
    [][\A r \in Reqs :
         (~Returned(r) /\ Returned(r)' /\ req[r].tempFile # Nil)
         => /\ req[r].tempFile \notin files'
            /\ OutputPath(req[r].tempFile) \notin files']_vars

BandLabel(w, h) ==
    IF h > 0 /\ 15991 * h < 9000 * w /\ 9000 * w < 16009 * h THEN <<"landscape">>
    ELSE IF h > 0 /\ 8984 * h < 16000 * w /\ 16000 * w < 9016 * h
    THEN <<"portrait">>
    ELSE <<"other">>

\* C5: once a request has called the object store, its key is
\* label "/" randomID "." ext with the label of its probed width and height,
\* one of landscape, portrait, other; the stored object and the reference the
\* request persists carry that same key.
C5_KeyPrefixIsLabel ==
    /\ \A r \in Reqs :
         Did(r, "PutObject") =>
           LET k == req[r].fileKey IN
           /\ Len(k) = 5 /\ k[2] = "/" /\ k[4] = "."
           /\ <<k[1]>> = req[r].aspectRatio
           /\ req[r].aspectRatio \in Labels
           /\ req[r].probe.kind = "streams"
           /\ req[r].aspectRatio = BandLabel(req[r].probe.width, req[r].probe.height)
           /\ Did(r, "stored") => <<s3Bucket, k>> \in store
           /\ Did(r, "updated")
                => req[r].video.VideoURL = s3Bucket \o <<",">> \o k
    /\ \A b \in store : \E r \in Reqs : Did(r, "stored") /\ b = <<s3Bucket, req[r].fileKey>>
    /\ db["v1"].VideoURL # Nil
         => \E r \in Reqs :
              /\ Did(r, "updated")
              /\ db["v1"].VideoURL = s3Bucket \o <<",">> \o req[r].fileKey

\* C5 witness: a portrait upload was stored and its reference persisted
C5_Witness ==
    \E r \in Reqs :
      /\ Did(r, "updated")
      /\ req[r].probe.width = 1080 /\ req[r].probe.height = 1920
      /\ req[r].fileKey[1] = "portrait"
      /\ db["v1"].VideoURL = s3Bucket \o <<",">> \o req[r].fileKey

\* C6 (as claimed): the label of a pair follows the two bands, and exchanging
\* width and height turns landscape into portrait and portrait into landscape.
C6_SwapExchangesLabels ==
    /\ ratioLabel # Nil => ratioLabel = BandLabel(ratioW, ratioH)
    /\ ratioPrev = <<"landscape">> => ratioLabel = <<"portrait">>
    /\ ratioPrev = <<"portrait">> => ratioLabel = <<"landscape">>

\* C6 (amended): the label of a pair is landscape exactly inside the band
\* around 16/9, portrait exactly inside the band around 9/16, other elsewhere
\* (a zero height included); 1920x1080 is landscape, 1080x1920 portrait,
\* 1000x1000 and 4:3 other; exchanging width and height of a landscape pair
\* gives portrait, and of a portrait pair gives landscape or other.
C6_ClassificationBands ==
    /\ ratioLabel # Nil =>
         /\ ratioLabel = BandLabel(ratioW, ratioH)
         /\ ratioLabel \in Labels
         /\ ratioH = 0 => ratioLabel = <<"other">>
         /\ (ratioW = 1920 /\ ratioH = 1080) => ratioLabel = <<"landscape">>
         /\ (ratioW = 1080 /\ ratioH = 1920) => ratioLabel = <<"portrait">>
         /\ (ratioW = 1000 /\ ratioH = 1000) => ratioLabel = <<"other">>
         /\ (ratioH > 0 /\ 3 * ratioW = 4 * ratioH) => ratioLabel = <<"other">>
    /\ ratioPrev = <<"landscape">> => ratioLabel = <<"portrait">>
    /\ ratioPrev = <<"portrait">> => ratioLabel \in {<<"landscape">>, <<"other">>}

\* C6 witness: 40x71 is portrait, and 71x40 is other
C6_Witness ==
    /\ ratioW = 71 /\ ratioH = 40
    /\ ratioPrev = <<"portrait">>
    /\ ratioLabel = <<"other">>

\* C7 (as claimed): once set, the record's location reference never changes.
C7_ReferenceNeverChanges ==
    [][db["v1"].VideoURL # Nil => db'["v1"].VideoURL = db["v1"].VideoURL]_vars

\* C7 (amended): the record changes only in the record update of an upload
\* whose object-store write has succeeded, which sets the location reference
\* to "bucket,key" of the object that upload stored, whether or not a
\* reference was set before; no other step and no failing request changes it.
C7_ReferenceSetOnlyByPublish ==
    [][db' # db =>
         \E r \in Reqs :
           /\ req[r].pc = "update" /\ req'[r].pc = "sign"
           /\ <<s3Bucket, req[r].fileKey>> \in store
           /\ db'["v1"].VideoURL = s3Bucket \o <<",">> \o req[r].fileKey
           /\ db'["v1"].UserID = db["v1"].UserID]_vars

\* C7 witness: a second upload has replaced the reference the first one set
C7_Witness ==
    \E r1, r2 \in Reqs :
      /\ Did(r1, "updated") /\ Did(r2, "updated")
      /\ req[r1].fileKey # req[r2].fileKey
      /\ db["v1"].VideoURL = s3Bucket \o <<",">> \o req[r2].fileKey
      /\ req[r1].pc = "done" /\ req[r1].resp.status = StatusOK
      /\ req[r2].pc = "done" /\ req[r2].resp.status = StatusOK

\* C8 (as claimed): when the probing tool fails, prints malformed output or
\* reports no stream, the probe gives no label and the handler answers with
\* the processing error.
C8_ProbeFailureIsReported ==
    \A r \in Reqs :
      req[r].probe.kind \in {"toolError", "malformed", "noStreams"}
        => /\ req[r].aspectRatio = Nil
           /\ req[r].pc = "done"
           /\ req[r].resp = [status |-> StatusInternalServerError,
                             msg |-> "Couldn't get video aspect ratio"]

\* C9 (as claimed): a non-owner is answered Forbidden (403), not the 401 of a
\* missing or invalid credential.
C9_NonOwnerIsForbidden ==
    \A r \in Reqs :
      (req[r].pc = "done" /\ req[r].video.ID # ""
         /\ req[r].video.UserID # req[r].userID)
        => /\ req[r].resp.status = 403
           /\ req[r].resp.status # StatusUnauthorized

\* C10 (as claimed): a body over the limit is answered 413, not the 400 of a
\* malformed form, and nothing is staged, processed, stored or updated.
C10_TooLargeIs413 ==
    \A r \in Reqs :
      (req[r].pc = "done" /\ req[r].body = "tooLarge")
        => /\ req[r].resp.status = 413
           /\ req[r].resp.status # StatusBadRequest
           /\ \A e \in SideEffects : ~Did(r, e)

InFlight(r) == req[r].pc \notin {"start", "done", "panicked"}

\* C11 (as claimed): the staged paths, the remuxed paths and the object keys of
\* two requests that run at the same time are pairwise distinct.
C11_PathsAndKeysDistinct ==
    \A r1, r2 \in Reqs :
      (r1 # r2 /\ InFlight(r1) /\ InFlight(r2)) =>
        /\ (req[r1].tempFile # Nil /\ req[r2].tempFile # Nil)
             => /\ req[r1].tempFile # req[r2].tempFile
                /\ OutputPath(req[r1].tempFile) # OutputPath(req[r2].tempFile)
        /\ (req[r1].fileKey # Nil /\ req[r2].fileKey # Nil)
             => req[r1].fileKey # req[r2].fileKey

\* C11 (amended): the staged paths and the remuxed paths of two requests that
\* run at the same time are pairwise distinct and no staged path is a remuxed
\* path; the staged file and the remuxed file a running request holds are on
\* disk until it returns (no other request removes them) and a remux never
\* writes over a file that exists.  Object keys are not covered: two requests
\* that draw the same random identifier for the same label share a key.
C11_TempPathsDistinct ==
    /\ \A r1, r2 \in Reqs :
         (r1 # r2 /\ req[r1].tempFile # Nil /\ req[r2].tempFile # Nil) =>
           /\ req[r1].tempFile # req[r2].tempFile
           /\ OutputPath(req[r1].tempFile) # OutputPath(req[r2].tempFile)
           /\ req[r1].tempFile # OutputPath(req[r2].tempFile)
           /\ req[r1].fastStart # Nil => req[r1].fastStart # req[r2].fastStart
    /\ \A r \in Reqs :
         /\ (InFlight(r) /\ req[r].tempFile # Nil) => req[r].tempFile \in files
         /\ (InFlight(r) /\ req[r].fastStart # Nil)
              => /\ req[r].fastStart \in files
                 /\ req[r].fastStart = OutputPath(req[r].tempFile)
         /\ ~InFlight(r) => (req[r].tempFile = Nil /\ req[r].fastStart = Nil)

\* C11 witness: two requests hold staged and remuxed files at the same time
\* and have made the same object key
C11_Witness ==
    \E r1, r2 \in Reqs :
      /\ r1 # r2
      /\ req[r1].fastStart # Nil /\ req[r2].fastStart # Nil
      /\ req[r1].fileKey # Nil /\ req[r1].fileKey = req[r2].fileKey
      /\ req[r1].pc = "put" /\ req[r2].pc = "put"

\* C12: the reference a request persists holds exactly one comma, so cutting
\* it at the commas gives back the bucket and the key that were joined; a 200
\* answer carries the signed URL of that bucket and key, never the persisted
\* "bucket,key" itself.
C12_SignedURLOfPersistedKey ==
    \A r \in Reqs :
      /\ Did(r, "updated") =>
           /\ Len(SelectSeq(req[r].video.VideoURL, LAMBDA t : t = ",")) = 1
           /\ req[r].video.VideoURL[Len(s3Bucket) + 1] = ","
           /\ SubSeq(req[r].video.VideoURL, 1, Len(s3Bucket)) = s3Bucket
           /\ SubSeq(req[r].video.VideoURL, Len(s3Bucket) + 2,
                     Len(req[r].video.VideoURL)) = req[r].fileKey
      /\ (req[r].pc = "done" /\ req[r].resp.status = StatusOK) =>
           /\ Did(r, "updated") /\ Did(r, "Presign")
           /\ req[r].returnedURL =
                <<"https://">> \o s3Bucket \o <<".s3.amazonaws.com/">>
                    \o req[r].fileKey \o <<"?X-Amz-Expires=600&X-Amz-Signature=">>
           /\ req[r].returnedURL # req[r].video.VideoURL
           /\ <<s3Bucket, req[r].fileKey>> \in store
      /\ req[r].pc = "panicked" => ~Did(r, "updated")

\* C12 witness: a landscape upload was answered with its signed URL
C12_Witness ==
    \E r \in Reqs :
      /\ req[r].pc = "done" /\ req[r].resp.status = StatusOK
      /\ req[r].fileKey[1] = "landscape"
      /\ req[r].returnedURL # Nil
      /\ db["v1"].VideoURL = s3Bucket \o <<",">> \o req[r].fileKey

\* The side-effecting steps of a request in the order of the code, and where
\* the request stands when it is about to make each.
StepOrder == <<"CreateTemp", "ffmpeg", "ffprobe", "PutObject", "UpdateVideo",
               "Presign">>
StepAt == <<"createTemp", "remux", "probe", "put", "update", "sign">>

\* C13: a request makes its steps in the order stage, remux, probe, store
\* write, record update, sign: a step is made only after all the steps before
\* it have succeeded, a request about to make a step has not made it or any
\* later step before (no retry), and once a request has returned it makes no
\* step at all; so a failed remux or probe is followed by no store write and a
\* failed store write by no record update.
C13_StepsInOrderOnce ==
    [][\A r \in Reqs :
         /\ \A i \in 2..Len(StepOrder) :
              Did(r, StepOrder[i])' => Did(r, StepOrder[i - 1])'
         /\ \A i \in 1..Len(StepOrder) :
              req'[r].pc = StepAt[i] =>
                /\ \A j \in 1..Len(StepOrder) : j >= i => ~Did(r, StepOrder[j])'
                /\ \A j \in 1..Len(StepOrder) : j < i => Did(r, StepOrder[j])'
         /\ Did(r, "UpdateVideo")' => Did(r, "stored")'
         /\ Did(r, "Presign")' => Did(r, "updated")'
         /\ Did(r, "updated")' => Did(r, "UpdateVideo")'
         /\ req'[r].resp.msg \in {"Couldn't create temp file", "Couldn't copy file",
                                  "Couldn't seek file"}
              => \A j \in 2..Len(StepOrder) : ~Did(r, StepOrder[j])'
         /\ req'[r].resp.msg \in {"Couldn't process video",
                                  "Couldn't open fast start temp file"}
              => \A j \in 3..Len(StepOrder) : ~Did(r, StepOrder[j])'
         /\ (req'[r].resp.msg = "Couldn't get video aspect ratio"
               \/ req'[r].pc = "panicked")
              => \A j \in 4..Len(StepOrder) : ~Did(r, StepOrder[j])'
         /\ req'[r].resp.msg = "Couldn't upload file"
              => (~Did(r, "stored")' /\ ~Did(r, "UpdateVideo")'
                    /\ ~Did(r, "Presign")')
         /\ req'[r].resp.msg = "Couldn't update video"
              => (~Did(r, "updated")' /\ ~Did(r, "Presign")')
         /\ Returned(r) =>
              /\ req'[r] = req[r]
              /\ \A e \in SideEffects : Did(r, e)' <=> Did(r, e)]_vars

\* C13 witness: one request failed in its store write after remux and probe,
\* another went through all six steps
C13_Witness ==
    \E r1, r2 \in Reqs :
      /\ req[r1].pc = "done" /\ req[r1].resp.msg = "Couldn't upload file"
      /\ Did(r1, "ffprobe") /\ ~Did(r1, "UpdateVideo")
      /\ req[r2].pc = "done" /\ req[r2].resp.status = StatusOK
      /\ \A i \in 1..Len(StepOrder) : Did(r2, StepOrder[i])

\* C14: a request whose caller disconnected while the body was received or
\* copied to the staging file makes no remux, probe, store write or record
\* update, and when it has returned it has answered with an error and its
\* staging file is gone.
C14_DisconnectStopsRequest ==
    \A r \in Reqs :
      req[r].gone \in {"form", "copy"} =>
        /\ ~Did(r, "ffmpeg") /\ ~Did(r, "ffprobe")
        /\ ~Did(r, "PutObject") /\ ~Did(r, "UpdateVideo")
        /\ Returned(r) =>
             /\ req[r].pc = "done" /\ req[r].resp.status >= 400
             /\ \A n \in 1..MaxTemp : TempName(n) \in files =>
                  \E q \in Reqs : req[q].tempFile = TempName(n)

C16_RecordPointsAtStoredObject ==
    \A v \in DOMAIN db :
      db[v].VideoURL # Nil =>
        LET params == Split(db[v].VideoURL) IN
        /\ Len(params) = 2
        /\ <<params[1], params[2]>> \in store
        /\ \E r \in Reqs :
             /\ Did(r, "stored") /\ Did(r, "updated")
             /\ params[1] = s3Bucket /\ params[2] = req[r].fileKey

\* C16 witness: the record has a reference while another upload's store
\* write has failed
C16_Witness ==
    \E r1, r2 \in Reqs :
      /\ db["v1"].VideoURL = SprintfVideoURL(s3Bucket, req[r1].fileKey)
      /\ Did(r1, "updated")
      /\ req[r2].resp.msg = "Couldn't upload file"
      /\ req[r2].fileKey # req[r1].fileKey
      /\ <<s3Bucket, req[r2].fileKey>> \notin store

\* C17: the step in which a video upload's UpdateVideo succeeds leaves the
\* thumbnail reference and the owner of every record as they were stored
\* right before it, whatever thumbnail uploads and other video uploads have
\* run in between.
C17_VideoUpdateKeepsThumbnailAndOwner ==
    [][\A r \in Reqs :
         (At(r, "update") /\ req'[r].pc = "sign") =>
           \A v \in DOMAIN db :
             /\ db'[v].ThumbnailURL = db[v].ThumbnailURL
             /\ db'[v].UserID = db[v].UserID]_vars

\* The media types of getExtension's table, and media types to try it on:
\* those of the table, those ParseMediaType gives, and others.
ExtensionTable == {"image/jpeg", "image/png", "image/gif", "image/webp"}
ExtensionInputs ==
    ExtensionTable
    \cup {ParseMediaType(ct).mediaType : ct \in ContentTypes}
    \cup {"video/mp4", "video/quicktime", "text/plain", "image/JPEG", "mp4"}

\* C18: getExtension gives an extension for every media type, "bin" for every
\* type outside its table; the video handler goes past its media type check
\* only with video/mp4, so every key it builds, every object it stores and
\* every reference it writes ends in ".bin".
C18_VideoKeysEndInBin ==
    /\ \A mt \in ExtensionInputs :
         /\ getExtension(mt) \in {<<"jpg">>, <<"png">>, <<"gif">>, <<"webp">>,
                                  <<"bin">>}
         /\ mt \notin ExtensionTable => getExtension(mt) = <<"bin">>
         /\ mt \in ExtensionTable => getExtension(mt) # <<"bin">>
    /\ \A r \in Reqs :
         req[r].fileKey # Nil =>
           /\ req[r].mediaType = "video/mp4"
           /\ SubSeq(req[r].fileKey, Len(req[r].fileKey) - 1,
                     Len(req[r].fileKey)) = <<".", "bin">>
    /\ \A o \in store :
         SubSeq(o[2], Len(o[2]) - 1, Len(o[2])) = <<".", "bin">>
    /\ \A v \in DOMAIN db :
         db[v].VideoURL # Nil =>
           db[v].VideoURL[Len(db[v].VideoURL)] = "bin"

\* C18 witness: an upload of type video/mp4 has stored an object under its
\* key and published it
C18_Witness ==
    \E r \in Reqs :
      /\ Did(r, "updated")
      /\ req[r].mediaType = "video/mp4"
      /\ req[r].aspectRatio = <<"other">>
      /\ <<s3Bucket, req[r].fileKey>> \in store
      /\ db["v1"].VideoURL = SprintfVideoURL(s3Bucket, req[r].fileKey)

====
